---- MODULE Spec2Model ----
(***************************************************************************)
(* Model of backend/server.py (AI interview platform).                     *)
(*                                                                         *)
(* The three MongoDB collections (users, resumes, interviews) are the      *)
(* shared state.  Every route handler is a coroutine: it runs atomically   *)
(* between two awaits, and each awaited database call takes effect at one  *)
(* instant.  A handler is therefore modelled as one action per database    *)
(* call, carrying the synchronous code around it; the awaited LLM call     *)
(* reads and writes no collection, so it is taken together with the        *)
(* database call that precedes it.                                         *)
(*                                                                         *)
(* Spec     : requests of all clients interleave at their awaits.          *)
(* SeqSpec  : the same handlers, each request finishing before the next    *)
(*            starts.                                                      *)
(* GenSpec  : generate_interview_questions as a function of the LLM's      *)
(*            reply and the job role.                                      *)
(***************************************************************************)
EXTENDS Integers, Sequences, FiniteSets, Bags, TLC

VARIABLES
    users,       \* db.users: sequence of documents, in insertion order
    resumes,     \* db.resumes
    interviews,  \* db.interviews, in insertion (= created_at) order
    reqs,        \* the requests in flight: a bag of the handlers' locals and positions
    returned,    \* the HTTP response a handler has just returned, until it is sent (NoResult: none)
    genCalls,    \* number of generate_interview_questions invocations so far
    fbCalls,     \* per interview (by position): generate_feedback invocations
    doneWrites,  \* per interview (by position): status=completed writes
    serial,      \* TRUE when clients wait for each response before the next request
    gen          \* GenSpec: the inputs and results of two generator calls

mainVars == <<users, resumes, interviews, reqs, returned, genCalls, fbCalls, doneWrites, serial>>
vars == <<mainVars, gen>>

----------------------------------------------------------------------------
(* Bounds of the model *)

MaxUsers == 2
MaxResumes == 1
MaxInterviews == 2
MaxRacedInterviews == 1
MaxInFlight == 2
MaxRichLines == 2
MaxPlainLines == 6

----------------------------------------------------------------------------
(* Python helpers used by the handlers *)

Min(a, b) == IF a < b THEN a ELSE b

\* s[:n]
Take(s, n) == SubSeq(s, 1, Min(n, Len(s)))

Whitespace == {" ", "\t", "\n", "\r"}

RECURSIVE LStrip(_)
LStrip(s) ==
    IF s # <<>> /\ Head(s) \in Whitespace THEN LStrip(Tail(s)) ELSE s

RECURSIVE RStrip(_)
RStrip(s) ==
    IF s # <<>> /\ s[Len(s)] \in Whitespace THEN RStrip(SubSeq(s, 1, Len(s) - 1)) ELSE s

\* str.strip()
Strip(s) == RStrip(LStrip(s))

\* str.startswith(c) for a one-character prefix
StartsWith(s, c) == s # <<>> /\ Head(s) = c

\* str.split(sep): the pieces between separators; "" splits to [""]
RECURSIVE SplitAcc(_, _, _, _)
SplitAcc(s, sep, cur, acc) ==
    IF s = <<>> THEN Append(acc, cur)
    ELSE IF Head(s) = sep THEN SplitAcc(Tail(s), sep, <<>>, Append(acc, cur))
    ELSE SplitAcc(Tail(s), sep, Append(cur, Head(s)), acc)

Split(s, sep) == SplitAcc(s, sep, <<>>, <<>>)

\* "\n".join(lines): what the LLM sends when it writes these lines
RECURSIVE JoinLines(_)
JoinLines(lines) ==
    IF Len(lines) = 0 THEN <<>>
    ELSE IF Len(lines) = 1 THEN lines[1]
    ELSE lines[1] \o <<"\n">> \o JoinLines(Tail(lines))

\* str(uuid.uuid4()) for the n-th question of the call-th generator invocation:
\* a value no other call site produces
QuestionUuid(call, n) == <<call, n>>

----------------------------------------------------------------------------
(* generate_interview_questions *)

QuestionCap == 7
MinParsed == 3

\* An LLM outcome: the call raised, or it returned a text (a sequence of characters)
LlmFailure == [ok |-> FALSE, text |-> <<>>]
LlmReply(text) == [ok |-> TRUE, text |-> text]

Question(id, text, type, topic) ==
    [id |-> id, question |-> text, type |-> type, topic |-> topic]

\* the loop over enumerate(question_texts[:7]); i is the 0-based line index
RECURSIVE ParseLoop(_, _, _, _)
ParseLoop(lines, i, acc, call) ==
    IF i >= Len(lines) THEN acc
    ELSE LET q == lines[i + 1] IN
         IF Strip(q) # <<>> /\ ~StartsWith(q, "#")
         THEN ParseLoop(lines, i + 1,
                        Append(acc, Question(QuestionUuid(call, Len(acc) + 1), Strip(q),
                                             IF i % 2 = 0 THEN "technical" ELSE "behavioral",
                                             "general")),
                        call)
         ELSE ParseLoop(lines, i + 1, acc, call)

ParseQuestions(text, call) ==
    ParseLoop(Take(Split(text, "\n"), QuestionCap), 0, <<>>, call)

\* the list substituted when fewer than 3 questions were parsed
ParseFallback(job_role, call) ==
    << Question(QuestionUuid(call, 1), <<"Tell me about your experience with ", job_role, " technologies.">>, "technical", "experience"),
       Question(QuestionUuid(call, 2), <<"Walk me through a challenging project you've worked on.">>, "behavioral", "projects"),
       Question(QuestionUuid(call, 3), <<"How do you stay updated with the latest trends in ", job_role, "?">>, "behavioral", "learning"),
       Question(QuestionUuid(call, 4), <<"Describe a time when you had to solve a complex technical problem.">>, "technical", "problem-solving"),
       Question(QuestionUuid(call, 5), <<"What interests you most about working as a ", job_role, "?">>, "behavioral", "motivation") >>

\* the list returned from the except branch
ExceptFallback(job_role, call) ==
    << Question(QuestionUuid(call, 1), <<"Tell me about your experience in ", job_role, ".">>, "technical", "experience"),
       Question(QuestionUuid(call, 2), <<"Walk me through your most challenging project.">>, "behavioral", "projects"),
       Question(QuestionUuid(call, 3), <<"How do you approach problem-solving?">>, "technical", "problem-solving") >>

\* faulty variant: too few parsed questions are kept and topped up from the fallback list
GenerateKeepingParsed(llm, job_role, call) ==
    IF ~llm.ok THEN ExceptFallback(job_role, call)
    ELSE LET questions == ParseQuestions(llm.text, call) IN
         IF Len(questions) < MinParsed
         THEN questions \o SubSeq(ParseFallback(job_role, call), Len(questions) + 1, 5)
         ELSE questions

\* resume_text and experience_level only reach the prompt; what comes back is llm
GenerateInterviewQuestions(llm, job_role, call) ==
    IF ~llm.ok THEN ExceptFallback(job_role, call)
    ELSE LET questions == ParseQuestions(llm.text, call) IN
         IF Len(questions) < MinParsed THEN ParseFallback(job_role, call)
         ELSE questions

----------------------------------------------------------------------------
(* generate_feedback *)

FeedbackFallback ==
    "Thank you for completing the interview. Your responses have been recorded and our team will review them shortly."

\* the transcript is built from zip(questions, responses); the LLM's reply is returned
\* verbatim, and any failure yields the fixed string
GenerateFeedback(llm) == IF llm.ok THEN llm.text ELSE FeedbackFallback

----------------------------------------------------------------------------
(* Documents and values *)

Emails == {"a@x.io", "b@x.io"}
JobRoles == {"Software Engineer", "Data Analyst"}

\* Optional[str]: None is <<>>, a string s is <<s>>
None == <<>>
Some(s) == <<s>>

\* a bearer token as jwt.decode sees it
ValidToken(sub) == [kind |-> "valid", sub |-> sub]
BadTokens == {[kind |-> k, sub |-> 0] : k \in {"garbage", "expired", "nosub"}}
\* a request without an Authorization header
NoToken == [kind |-> "missing", sub |-> 0]

\* faulty variant: the payload's sub is returned without the None test
GetCurrentUserUnchecked(token) ==
    IF token.kind = "valid" THEN token.sub ELSE IF token.kind = "nosub" THEN -1 ELSE 0

\* get_current_user: the user id, or 0 when the request is rejected
GetCurrentUser(token) == IF token.kind = "valid" THEN token.sub ELSE 0

\* the status of the rejection.  get_current_user raises 401 for a token that
\* does not decode, has expired or carries no sub.  A request without a token never
\* reaches get_current_user: HTTPBearer() rejects it, with 403 or 401 depending on
\* the installed FastAPI release.
Rejections(token) == IF token.kind = "missing" THEN {401, 403} ELSE {401}

\* register issues a token for the id it inserted; users are never deleted
IssuedTokens == {ValidToken(users[i].id) : i \in 1..Len(users)}
Tokens == IssuedTokens \cup BadTokens \cup {NoToken}

\* str(uuid.uuid4()) at the insert of the n-th document of a collection
DocUuid(n) == n

UserDoc(id, email) == [id |-> id, email |-> email]
ResumeDoc(id, user_id, filename) == [id |-> id, user_id |-> user_id, filename |-> filename]
InterviewDoc(id, user_id, job_role, questions) ==
    [id |-> id, user_id |-> user_id, job_role |-> job_role, status |-> "in_progress",
     questions |-> questions, responses |-> <<>>, feedback |-> None]
ResponseDoc(question_id, answer) == [question_id |-> question_id, answer |-> answer]

\* the largest and the smallest of a set of positions
Max(S) == CHOOSE x \in S : \A y \in S : y <= x
MinOf(S) == CHOOSE x \in S : \A y \in S : x <= y

\* find_one({"user_id": .., "status": "in_progress"}, sort=[("created_at", -1)]):
\* the position of the caller's newest open interview, 0 when there is none
FindActive(user_id) ==
    LET S == {i \in 1..Len(interviews) : interviews[i].user_id = user_id
                                          /\ interviews[i].status = "in_progress"}
    IN IF S = {} THEN 0 ELSE Max(S)

\* find_one / update_one with filter {"id": id}: the first document with that id
FindById(id) ==
    LET S == {i \in 1..Len(interviews) : interviews[i].id = id}
    IN IF S = {} THEN 0 ELSE MinOf(S)

\* faulty variant: the resume lookup without the user_id filter
FindResumeAnyUser(user_id) == Len(resumes)

\* find_one({"user_id": ..}, sort=[("uploaded_at", -1)]) on db.resumes
FindResume(user_id) ==
    LET S == {i \in 1..Len(resumes) : resumes[i].user_id = user_id}
    IN IF S = {} THEN 0 ELSE Max(S)

\* find_one({"email": ..}) on db.users
FindUserByEmail(email) ==
    LET S == {i \in 1..Len(users) : users[i].email = email}
    IN IF S = {} THEN 0 ELSE MinOf(S)

----------------------------------------------------------------------------
(* Requests in flight and HTTP responses *)

\* a handler suspended at an await: its position and the locals it holds
Request(op, pc, user) ==
    [op |-> op, pc |-> pc, user |-> user, email |-> "", job_role |-> "",
     questions |-> <<>>, target |-> 0, response |-> <<>>, feedback |-> None]

NoRequests == EmptyBag
AllIdle == reqs = NoRequests
InFlight(op) == BagCardinality([r \in {q \in BagToSet(reqs) : q.op = op} |-> reqs[r]])
Suspend(r) == reqs (+) SetToBag({r})
Resume(r, r2) == (reqs (-) SetToBag({r})) (+) SetToBag({r2})
Finish(r) == reqs (-) SetToBag({r})

\* the response returned to the client; target is the position of the interview the
\* handler worked on (0 when none), items the positions of the interviews listed
Result(op, user, status, completed, feedback, target) ==
    [op |-> op, user |-> user, status |-> status, completed |-> completed,
     feedback |-> feedback, target |-> target, items |-> <<>>]

\* the rejection of a request whose token names no user
Unauthorized(op, token) == {Result(op, 0, status, FALSE, None, 0) : status \in Rejections(token)}

NoResult == Result("none", 0, 0, FALSE, None, 0)

\* a returned response is sent before the event loop runs anything else
Sent == returned = NoResult
At(r, op, pc) == Sent /\ BagIn(r, reqs) /\ r.op = op /\ r.pc = pc

\* a request may arrive: always, or only when no other is running (serial clients)
Arrive == Sent /\ (serial => AllIdle)
\* the server takes on one more handler
Accept == Arrive /\ BagCardinality(reqs) < MaxInFlight

\* interviews explored: MaxInterviews with serial clients, MaxRacedInterviews otherwise
InterviewBound == IF serial THEN MaxInterviews ELSE MaxRacedInterviews

----------------------------------------------------------------------------
(* Inputs the clients send *)

RequestJobRoles == {"Software Engineer"}
Filenames == {"cv.pdf", "cv.txt", "broken.pdf"}
Answers == {"my answer"}

\* what the LLM does when asked for questions by a handler: it replies with four
\* lines of which one is a heading (GenSpec explores the other replies and failure)
QuestionLlmOutcomes ==
    {LlmReply(JoinLines(<< <<"a">>, <<"#", "h">>, <<" ", "b">>, <<"c">> >>))}

\* what the LLM may do when asked for feedback
FeedbackLlmOutcomes == {LlmFailure, LlmReply("report")}

\* question_id is whatever the client sends; here the id of the next unanswered
\* question of the caller's newest interview (its last question once all are answered)
NoSuchQuestion == <<0, 0>>
ClientQuestionIds(user_id) ==
    LET S == {i \in 1..Len(interviews) : interviews[i].user_id = user_id}
    IN IF S = {} THEN {NoSuchQuestion}
       ELSE LET d == interviews[Max(S)]
            IN {d.questions[Min(Len(d.responses) + 1, Len(d.questions))].id}

\* file.filename.endswith('.pdf')
IsPdf(filename) == filename \in {"cv.pdf", "broken.pdf"}
\* extract_text_from_pdf raises for a file PyPDF2 cannot read
Extractable(filename) == filename = "cv.pdf"

----------------------------------------------------------------------------
(* Initial state *)

MainInit ==
    /\ users = <<>>
    /\ resumes = <<>>
    /\ interviews = <<>>
    /\ reqs = NoRequests
    /\ returned = NoResult
    /\ genCalls = 0
    /\ fbCalls = <<>>
    /\ doneWrites = <<>>

\* the generator at rest: no call made for the role and LLM outcome on record
GenInput(job_role, llm) ==
    [role |-> job_role, llm |-> llm, calls |-> 0, first |-> <<>>, llm2 |-> LlmFailure,
     second |-> <<>>]
GenIdle == GenInput("", LlmFailure)

Init == MainInit /\ serial = FALSE /\ gen = GenIdle

SeqInit == MainInit /\ serial = TRUE /\ gen = GenIdle

----------------------------------------------------------------------------
(* POST /api/register *)

\* find_one({"email": ..}); 400 when a user has it
RegisterFind(email) ==
    /\ Accept
    /\ IF FindUserByEmail(email) # 0
       THEN /\ returned' = Result("register", 0, 400, FALSE, None, 0)
            /\ UNCHANGED reqs
       ELSE /\ Len(users) + InFlight("register") < MaxUsers
            /\ reqs' = Suspend([Request("register", "insert", 0) EXCEPT !.email = email])
            /\ returned' = NoResult
    /\ UNCHANGED <<users, resumes, interviews, genCalls, fbCalls, doneWrites, serial, gen>>

\* insert_one(user_doc), then the token for the new id
RegisterInsert(r) ==
    /\ At(r, "register", "insert")
    /\ LET user_id == DocUuid(Len(users) + 1) IN
       /\ users' = Append(users, UserDoc(user_id, r.email))
       /\ returned' = Result("register", user_id, 200, FALSE, None, 0)
    /\ reqs' = Finish(r)
    /\ UNCHANGED <<resumes, interviews, genCalls, fbCalls, doneWrites, serial, gen>>

----------------------------------------------------------------------------
(* POST /api/upload-resume *)

UploadResume(token, filename) ==
    /\ Arrive
    /\ Len(resumes) < MaxResumes
    /\ LET user_id == GetCurrentUser(token) IN
       IF user_id = 0
       THEN /\ returned' \in Unauthorized("upload", token)
            /\ UNCHANGED resumes
       ELSE IF ~IsPdf(filename) \/ ~Extractable(filename)
       THEN /\ returned' = Result("upload", user_id, 400, FALSE, None, 0)
            /\ UNCHANGED resumes
       ELSE /\ resumes' = Append(resumes, ResumeDoc(DocUuid(Len(resumes) + 1), user_id, filename))
            /\ returned' = Result("upload", user_id, 200, FALSE, None, 0)
    /\ UNCHANGED <<users, interviews, reqs, genCalls, fbCalls, doneWrites, serial, gen>>

----------------------------------------------------------------------------
(* POST /api/start-interview *)

\* the resume lookup, the 400 without one, and the question generation
StartFind(token, job_role, llm) ==
    /\ Accept
    /\ LET user_id == GetCurrentUser(token) IN
       IF user_id = 0
       THEN /\ returned' \in Unauthorized("start", token)
            /\ UNCHANGED <<reqs, genCalls>>
       ELSE IF FindResume(user_id) = 0
       THEN /\ returned' = Result("start", user_id, 400, FALSE, None, 0)
            /\ UNCHANGED <<reqs, genCalls>>
       ELSE /\ Len(interviews) + InFlight("start") < InterviewBound
            /\ genCalls' = genCalls + 1
            /\ reqs' = Suspend([Request("start", "insert", user_id) EXCEPT
                                  !.job_role = job_role,
                                  !.questions = GenerateInterviewQuestions(llm, job_role, genCalls + 1)])
            /\ returned' = NoResult
    /\ UNCHANGED <<users, resumes, interviews, fbCalls, doneWrites, serial, gen>>

\* insert_one(interview_doc) and the 200
StartInsert(r) ==
    /\ At(r, "start", "insert")
    /\ LET interview_id == DocUuid(Len(interviews) + 1) IN
       /\ interviews' = Append(interviews, InterviewDoc(interview_id, r.user, r.job_role, r.questions))
       /\ fbCalls' = Append(fbCalls, 0)
       /\ doneWrites' = Append(doneWrites, 0)
       /\ returned' = Result("start", r.user, 200, FALSE, None, Len(interviews) + 1)
    /\ reqs' = Finish(r)
    /\ UNCHANGED <<users, resumes, genCalls, serial, gen>>

----------------------------------------------------------------------------
(* POST /api/submit-response *)

\* find_one of the caller's newest in_progress interview; 404 without one
SubmitFind(token, question_id, answer) ==
    /\ Accept
    /\ LET user_id == GetCurrentUser(token) IN
       IF user_id = 0
       THEN /\ returned' \in Unauthorized("submit", token)
            /\ UNCHANGED reqs
       ELSE IF FindActive(user_id) = 0
       THEN /\ returned' = Result("submit", user_id, 404, FALSE, None, 0)
            /\ UNCHANGED reqs
       ELSE /\ reqs' = Suspend([Request("submit", "push", user_id) EXCEPT
                                  !.target = interviews[FindActive(user_id)].id,
                                  !.response = ResponseDoc(question_id, answer)])
            /\ returned' = NoResult
    /\ UNCHANGED <<users, resumes, interviews, genCalls, fbCalls, doneWrites, serial, gen>>

\* update_one({"id": ..}, {"$push": {"responses": response_doc}})
PushResponse(i, response_doc) ==
    [interviews EXCEPT ![i].responses = Append(@, response_doc)]

SubmitPush(r) ==
    /\ At(r, "submit", "push")
    /\ interviews' = PushResponse(FindById(r.target), r.response)
    /\ reqs' = Resume(r, [r EXCEPT !.pc = "reread"])
    /\ returned' = NoResult
    /\ UNCHANGED <<users, resumes, genCalls, fbCalls, doneWrites, serial, gen>>

\* faulty variant: completion only once more responses than questions are stored
AllAnsweredOffByOne(updated_interview) ==
    Len(updated_interview.responses) > Len(updated_interview.questions)

\* faulty variant: completion only when the counts are equal
AllAnsweredExactly(updated_interview) ==
    Len(updated_interview.responses) = Len(updated_interview.questions)

\* the test that decides completion, on the document just re-read
AllAnswered(updated_interview) ==
    Len(updated_interview.responses) >= Len(updated_interview.questions)

\* find_one({"id": ..}); when all questions are answered, generate_feedback;
\* otherwise the 200 with completed = False
SubmitReread(r, llm) ==
    /\ At(r, "submit", "reread")
    /\ LET i == FindById(r.target)
           updated_interview == interviews[i] IN
       IF AllAnswered(updated_interview)
       THEN /\ fbCalls' = [fbCalls EXCEPT ![i] = @ + 1]
            /\ reqs' = Resume(r, [r EXCEPT !.pc = "complete",
                                           !.feedback = Some(GenerateFeedback(llm))])
            /\ returned' = NoResult
       ELSE /\ llm = LlmFailure
            /\ returned' = Result("submit", r.user, 200, FALSE, None, i)
            /\ reqs' = Finish(r)
            /\ UNCHANGED fbCalls
    /\ UNCHANGED <<users, resumes, interviews, genCalls, doneWrites, serial, gen>>

\* faulty variant: the completion write sets the status and leaves the feedback out
MarkCompletedStatusOnly(i, feedback) ==
    [interviews EXCEPT ![i].status = "completed"]

\* update_one({"id": ..}, {"$set": {"status": "completed", "feedback": feedback, ..}})
MarkCompleted(i, feedback) ==
    [interviews EXCEPT ![i].status = "completed", ![i].feedback = feedback]

SubmitComplete(r) ==
    /\ At(r, "submit", "complete")
    /\ LET i == FindById(r.target) IN
       /\ interviews' = MarkCompleted(i, r.feedback)
       /\ doneWrites' = [doneWrites EXCEPT ![i] = @ + 1]
       /\ returned' = Result("submit", r.user, 200, TRUE, r.feedback, i)
    /\ reqs' = Finish(r)
    /\ UNCHANGED <<users, resumes, genCalls, fbCalls, serial, gen>>

----------------------------------------------------------------------------
(* GET /api/interview/{interview_id} *)

\* faulty variant: the lookup by id alone
FindOwnedAnyUser(interview_id, user_id) == FindById(interview_id)

\* find_one({"id": .., "user_id": ..})
FindOwned(interview_id, user_id) ==
    LET S == {i \in 1..Len(interviews) : interviews[i].id = interview_id
                                          /\ interviews[i].user_id = user_id}
    IN IF S = {} THEN 0 ELSE MinOf(S)

GetInterview(token, interview_id) ==
    /\ Arrive
    /\ LET user_id == GetCurrentUser(token)
           i == FindOwned(interview_id, user_id) IN
       IF user_id = 0 THEN returned' \in Unauthorized("get", token)
       ELSE IF i = 0 THEN returned' = Result("get", user_id, 404, FALSE, None, 0)
       ELSE returned' = Result("get", user_id, 200, interviews[i].status = "completed",
                               interviews[i].feedback, i)
    /\ UNCHANGED <<users, resumes, interviews, reqs, genCalls, fbCalls, doneWrites, serial, gen>>

----------------------------------------------------------------------------
(* GET /api/interview-history *)

HistoryLimit == 50

\* the positions in s, largest first
RECURSIVE Descending(_)
Descending(S) == IF S = {} THEN <<>> ELSE <<Max(S)>> \o Descending(S \ {Max(S)})

\* find({"user_id": ..}).sort("created_at", -1).to_list(50)
FindHistory(user_id) ==
    Take(Descending({i \in 1..Len(interviews) : interviews[i].user_id = user_id}), HistoryLimit)

GetInterviewHistory(token) ==
    /\ Arrive
    /\ LET user_id == GetCurrentUser(token) IN
       IF user_id = 0 THEN returned' \in Unauthorized("history", token)
       ELSE returned' = [Result("history", user_id, 200, FALSE, None, 0) EXCEPT
                            !.items = FindHistory(user_id)]
    /\ UNCHANGED <<users, resumes, interviews, reqs, genCalls, fbCalls, doneWrites, serial, gen>>

----------------------------------------------------------------------------
(* The service *)

\* the framework sends the handler's response to the client
Respond ==
    /\ returned # NoResult
    /\ returned' = NoResult
    /\ UNCHANGED <<users, resumes, interviews, reqs, genCalls, fbCalls, doneWrites, serial, gen>>

Next ==
    \/ \E email \in Emails : RegisterFind(email)
    \/ \E r \in BagToSet(reqs) : RegisterInsert(r)
    \/ \E token \in Tokens, filename \in Filenames : UploadResume(token, filename)
    \/ \E token \in Tokens, job_role \in RequestJobRoles, llm \in QuestionLlmOutcomes :
          StartFind(token, job_role, llm)
    \/ \E r \in BagToSet(reqs) : StartInsert(r)
    \/ \E token \in Tokens, answer \in Answers :
          \E question_id \in ClientQuestionIds(GetCurrentUser(token)) :
             SubmitFind(token, question_id, answer)
    \/ \E r \in BagToSet(reqs) : SubmitPush(r)
    \/ \E r \in BagToSet(reqs), llm \in FeedbackLlmOutcomes : SubmitReread(r, llm)
    \/ \E r \in BagToSet(reqs) : SubmitComplete(r)
    \/ \E token \in Tokens, interview_id \in 1..InterviewBound : GetInterview(token, interview_id)
    \/ \E token \in Tokens : GetInterviewHistory(token)
    \/ Respond

Spec == Init /\ [][Next]_vars

SeqSpec == SeqInit /\ [][Next]_vars

----------------------------------------------------------------------------
(* generate_interview_questions on its own *)

SeqsUpTo(S, n) == UNION {[1..k -> S] : k \in 0..n}

\* lines the LLM may write: blank, heading, padded, indented heading, plain
RichLines == {<<" ">>, <<"#", "h">>, <<" ", "q", " ">>, <<" ", "#">>, <<"b">>}
PlainLines == {<<>>, <<"a">>}

\* a reply is up to MaxRichLines lines of any kind, then up to MaxPlainLines lines
\* that are empty or a question
LlmTexts ==
    {JoinLines(rich \o plain) : rich \in SeqsUpTo(RichLines, MaxRichLines),
                                plain \in SeqsUpTo(PlainLines, MaxPlainLines)}

GenLlmOutcomes == {LlmFailure} \cup {LlmReply(text) : text \in LlmTexts}

GenInit ==
    /\ MainInit
    /\ serial = FALSE
    /\ gen \in {GenInput(job_role, llm) : job_role \in JobRoles, llm \in GenLlmOutcomes}

\* the first call, for the role and LLM outcome drawn
GenFirst ==
    /\ gen.calls = 0
    /\ gen' = [gen EXCEPT !.calls = 1,
                          !.first = GenerateInterviewQuestions(gen.llm, gen.role, 1)]
    /\ UNCHANGED mainVars

\* a repeated call for the same role; the LLM answers as before, fails, or
\* replies with an empty text
GenAgain(llm) ==
    /\ gen.calls = 1
    /\ gen' = [gen EXCEPT !.calls = 2, !.llm2 = llm,
                          !.second = GenerateInterviewQuestions(llm, gen.role, 2)]
    /\ UNCHANGED mainVars

GenNext ==
    \/ GenFirst
    \/ \E llm \in {gen.llm, LlmFailure, LlmReply(<<>>)} : GenAgain(llm)

GenSpec == GenInit /\ [][GenNext]_vars

----------------------------------------------------------------------------
(* Properties of the interview store under interleaved requests (Spec) *)

Interviews == 1..Len(interviews)
Completed(i) == interviews[i].status = "completed"

\* C1: every interview has at most as many responses as questions, in every
\* reachable state, however submit-response requests interleave.
C1_ResponsesWithinQuestions ==
    \A i \in Interviews : Len(interviews[i].responses) <= Len(interviews[i].questions)

\* C2: for every interview the feedback generator is invoked at most once and the
\* status=completed write happens at most once, and a completed interview has
\* seen exactly one of each.
C2_CompletesOnce ==
    \A i \in Interviews :
        /\ fbCalls[i] <= 1
        /\ doneWrites[i] <= 1
        /\ Completed(i) => fbCalls[i] = 1 /\ doneWrites[i] = 1

\* C4: an interview's feedback is set (not None) if and only if its status is
\* completed.
C4_FeedbackIffCompleted ==
    \A i \in Interviews : (interviews[i].feedback # None) <=> Completed(i)

\* C4 witness: an interview was completed by a submit-response request and holds
\* its feedback, the response being returned.
C4_Witness ==
    /\ returned.op = "submit" /\ returned.completed
    /\ \E i \in Interviews : Completed(i) /\ interviews[i].feedback # None /\ doneWrites[i] = 1

\* C5: once an interview is completed no step changes its stored feedback, so any
\* two reads of it after completion return the same text.
C5_FeedbackStable ==
    [][\A i \in Interviews : Completed(i) => interviews'[i].feedback = interviews[i].feedback]_vars

\* C6: no step appends to (or otherwise changes) the responses of an interview
\* that is completed when the step is taken.
C6_NoAppendAfterCompleted ==
    [][\A i \in Interviews : Completed(i) => interviews'[i].responses = interviews[i].responses]_vars

\* C7: no two user documents share an email, after any interleaving of register
\* calls.
C7_EmailUnique ==
    \A i, j \in 1..Len(users) : i # j => users[i].email # users[j].email

\* the submit-response requests that have appended to interview i and have yet to
\* re-read it or to write its completion
Completing(i) ==
    {r \in BagToSet(reqs) : r.op = "submit" /\ r.pc \in {"reread", "complete"}
                              /\ r.target = interviews[i].id}

\* C15: an interview that has at least as many responses as questions is
\* completed, or a submit-response request that appended to it is still in flight
\* and on its way to the completion write; so whenever no submit-response request
\* is in flight, every such interview has status completed.
C15_CompletionNotMissed ==
    \A i \in Interviews :
        Len(interviews[i].responses) >= Len(interviews[i].questions) =>
            Completed(i) \/ Completing(i) # {}

\* C15 witness: two interleaved submissions took an interview past its question
\* count, no request is in flight any more, and the interview is completed.
C15_Witness ==
    /\ AllIdle
    /\ \E i \in Interviews :
          /\ Len(interviews[i].responses) > Len(interviews[i].questions)
          /\ Completed(i)

----------------------------------------------------------------------------
(* Properties of the handlers with serial clients (SeqSpec) *)

OwnedBy(user_id) == {i \in Interviews : interviews[i].user_id = user_id}
QuestionIds(i) == {interviews[i].questions[k].id : k \in 1..Len(interviews[i].questions)}
HasResume(user_id) == \E k \in 1..Len(resumes) : resumes[k].user_id = user_id
HasOpenInterview(user_id) == \E i \in OwnedBy(user_id) : ~Completed(i)
IsNewestOpen(i, user_id) ==
    /\ i \in OwnedBy(user_id) /\ ~Completed(i)
    /\ \A j \in OwnedBy(user_id) : ~Completed(j) => j <= i
Last(seq) == seq[Len(seq)]

\* the k-th submission recorded against an interview of N questions is answered
\* completed = false while k < N and completed = true, with the stored feedback,
\* when k = N
C3_Counts ==
    (returned.op = "submit" /\ returned.status = 200) =>
        LET d == interviews[returned.target] IN
        /\ Len(d.responses) <= Len(d.questions)
        /\ returned.completed <=> Len(d.responses) = Len(d.questions)
        /\ returned.completed => d.status = "completed" /\ d.feedback # None
                                  /\ returned.feedback = d.feedback
        /\ ~returned.completed => d.status = "in_progress" /\ returned.feedback = None

\* a submission that carries a question of an interview completed earlier is not
\* accepted: it is answered 404
C3_LaterSubmissionRejected ==
    (returned.op = "submit" /\ returned.status = 200) =>
        LET q == Last(interviews[returned.target].responses).question_id IN
        \A j \in OwnedBy(returned.user) \ {returned.target} :
            Completed(j) => q \notin QuestionIds(j)

C3_Step ==
    /\ C3_Counts'
    /\ \A i \in Interviews : Completed(i) => interviews'[i] = interviews[i]
    /\ (returned'.op = "submit" /\ returned'.status = 404) =>
          ~HasOpenInterview(returned'.user) /\ interviews' = interviews
    /\ (returned'.op = "submit" /\ returned'.status = 200) =>
          IsNewestOpen(returned'.target, returned'.user)

C8_Step ==
    /\ (returned'.op = "start" /\ returned'.status = 400) =>
          /\ ~HasResume(returned'.user)
          /\ interviews' = interviews
          /\ genCalls' = genCalls
    /\ genCalls' # genCalls =>
          \E r \in BagToSet(reqs') : r.op = "start" /\ HasResume(r.user) /\ genCalls' = genCalls + 1
    /\ Len(interviews') # Len(interviews) =>
          returned'.op = "start" /\ returned'.status = 200
    /\ (returned'.op = "start" /\ returned'.status = 200) =>
          /\ HasResume(returned'.user)
          /\ Len(interviews') = Len(interviews) + 1
          /\ SubSeq(interviews', 1, Len(interviews)) = interviews
          /\ LET d == Last(interviews') IN
             /\ d.user_id = returned'.user
             /\ d.status = "in_progress"
             /\ d.responses = <<>>
             /\ d.feedback = None
             /\ Len(d.questions) >= 1

\* C8: a start-interview call of a user without a resume is answered 400, runs no
\* question generation and creates no interview; questions are generated and an
\* interview is created only for a user who has a resume, and the call then adds
\* exactly one interview, in_progress, with no responses, no feedback and at
\* least one question.
C8_StartInterview == [][C8_Step]_vars

\* C8 witness: an interview was created for a user with a resume, and a
\* start-interview call of a user without one has just been answered 400.
C8_Witness ==
    /\ returned.op = "start" /\ returned.status = 400 /\ ~HasResume(returned.user)
    /\ \E i \in Interviews : HasResume(interviews[i].user_id) /\ genCalls >= 1

\* the submit-response requests being handled, and those a step has just accepted
Submitting == {r \in BagToSet(reqs) : r.op = "submit"}
Accepted == {r \in BagToSet(reqs') : r.op = "submit" /\ r.pc = "push"
                                       /\ CopiesIn(r, reqs') > CopiesIn(r, reqs)}

\* interview i keeps everything but its responses, status and feedback
SameIdentity(i) ==
    /\ interviews'[i].id = interviews[i].id
    /\ interviews'[i].user_id = interviews[i].user_id
    /\ interviews'[i].job_role = interviews[i].job_role
    /\ interviews'[i].questions = interviews[i].questions

\* the step appends r's response to interview i and changes nothing else of it
AppendsTo(i, r) ==
    /\ interviews'[i].responses = Append(interviews[i].responses, r.response)
    /\ interviews'[i].status = interviews[i].status
    /\ interviews'[i].feedback = interviews[i].feedback

C11_Step ==
    /\ \A r \in Accepted :
          \E i \in Interviews : IsNewestOpen(i, r.user) /\ r.target = interviews[i].id
    /\ (interviews' # interviews /\ Len(interviews') = Len(interviews)) =>
          \E r \in Submitting, i \in Interviews :
             /\ \A j \in Interviews \ {i} : interviews'[j] = interviews[j]
             /\ SameIdentity(i)
             /\ \/ IsNewestOpen(i, r.user) /\ AppendsTo(i, r)
                \/ interviews'[i].responses = interviews[i].responses
    /\ (returned'.op = "submit" /\ returned'.status = 404) =>
          ~HasOpenInterview(returned'.user) /\ interviews' = interviews
    /\ (returned'.op = "submit" /\ returned'.status \in {200, 404} /\ Submitting = {}) =>
          returned'.status = 404 /\ ~HasOpenInterview(returned'.user)

\* C11: a submit-response call is accepted only for the caller's most recently
\* created in_progress interview, and its response is appended to that interview,
\* in_progress and the caller's newest at the append, and to no other: every other
\* interview (completed ones included), and the identity and questions of the
\* targeted one, stay as they were; a caller without an in_progress interview is
\* answered 404 and nothing changes.
C11_SubmitFrame == [][C11_Step]_vars

\* C12: every response stored in an interview carries the id of one of that
\* interview's own questions, whatever question_id values the clients sent.
C12_ResponsesReferenceOwnQuestions ==
    \A i \in Interviews : \A k \in 1..Len(interviews[i].responses) :
        interviews[i].responses[k].question_id \in QuestionIds(i)

----------------------------------------------------------------------------
(* Properties of the authentication of the protected routes *)

\* a step in which a protected route is called with the token
Protected(token) ==
    \/ \E filename \in Filenames : UploadResume(token, filename)
    \/ \E job_role \in RequestJobRoles, llm \in QuestionLlmOutcomes : StartFind(token, job_role, llm)
    \/ \E answer \in Answers, question_id \in ClientQuestionIds(GetCurrentUser(token)) \cup {NoSuchQuestion} :
          SubmitFind(token, question_id, answer)
    \/ \E interview_id \in 1..InterviewBound : GetInterview(token, interview_id)
    \/ GetInterviewHistory(token)

\* the response carries no user, no interview and no feedback
NoData(res) ==
    /\ res.user = 0 /\ res.target = 0 /\ res.items = <<>>
    /\ ~res.completed /\ res.feedback = None

\* the step answers with one of the statuses, returns no data, starts no handler
\* and no question generation, and writes to no collection
RejectedWith(statuses) ==
    /\ returned'.status \in statuses
    /\ NoData(returned')
    /\ UNCHANGED <<users, resumes, interviews, reqs, genCalls, fbCalls, doneWrites>>

----------------------------------------------------------------------------
(* Properties of the scoping of interviews to their owner *)

\* the requests a step has taken a turn of
Acting == {r \in BagToSet(reqs) : CopiesIn(r, reqs') < CopiesIn(r, reqs)}

\* GET interview/{id} by an authenticated caller: the record when the caller owns
\* an interview of that id, 404 and nothing of the record otherwise
C14_Get ==
    \A token \in IssuedTokens, interview_id \in 1..InterviewBound :
        GetInterview(token, interview_id) =>
            IF \E i \in OwnedBy(token.sub) : interviews[i].id = interview_id
            THEN /\ returned'.status = 200 /\ returned'.user = token.sub
                 /\ returned'.target \in OwnedBy(token.sub)
                 /\ interviews[returned'.target].id = interview_id
                 /\ returned'.feedback = interviews[returned'.target].feedback
            ELSE /\ returned'.status = 404
                 /\ returned'.target = 0 /\ returned'.feedback = None /\ ~returned'.completed

\* whatever a response to a read or a submission shows belongs to its caller
C14_Reads ==
    (returned' # returned /\ returned'.status = 200) =>
        /\ returned'.op \in {"get", "submit"} => returned'.target \in OwnedBy(returned'.user)
        /\ returned'.op = "history" =>
              {returned'.items[k] : k \in 1..Len(returned'.items)} = OwnedBy(returned'.user)

\* an interview is changed only by a submit-response request of its owner
C14_Writes ==
    \A i \in Interviews :
        interviews'[i] # interviews[i] =>
            /\ interviews'[i].user_id = interviews[i].user_id
            /\ \E r \in Acting : r.op = "submit" /\ r.user = interviews[i].user_id

\* C14: GET interview/{id} returns the record only to the interview's owner and
\* 404 to anyone else, interview-history lists exactly the caller's interviews, and
\* no step of a request of one user appends to or completes an interview of
\* another.
C14_ScopedToCaller == [][C14_Get /\ C14_Reads /\ C14_Writes]_vars

\* C14 witness: every interview id in use belongs to one user, who has answered a
\* question, and a GET of one of them by another registered user has just been
\* answered 404.
C14_Witness ==
    /\ Len(interviews) = InterviewBound
    /\ returned.op = "get" /\ returned.status = 404
    /\ \E k \in 1..Len(users) : users[k].id = returned.user
    /\ OwnedBy(returned.user) = {}
    /\ \E i \in Interviews : interviews[i].responses # <<>>

----------------------------------------------------------------------------
(* Properties of generate_interview_questions (GenSpec) *)

\* a question list without the generated ids
Content(questions) ==
    [k \in 1..Len(questions) |->
        [question |-> questions[k].question, type |-> questions[k].type,
         topic |-> questions[k].topic]]
IdsOf(questions) == {questions[k].id : k \in 1..Len(questions)}

IsQuestionLine(q) == Strip(q) # <<>> /\ ~StartsWith(q, "#")

\* the parse as C9 states it: the first 7 question lines of the whole reply,
\* tagged by their position in the resulting list
StatedParse(text) ==
    LET ls == Take(SelectSeq(Split(text, "\n"), IsQuestionLine), QuestionCap)
    IN [k \in 1..Len(ls) |->
          [question |-> Strip(ls[k]),
           type |-> IF k % 2 = 1 THEN "technical" ELSE "behavioral",
           topic |-> "general"]]

\* C9: for every LLM reply, the parsed list is every non-empty line that does not
\* start with a heading marker, in order, capped at 7 questions, tagged
\* technical/behavioral alternately by position in the resulting list; it is the
\* result whenever it has at least 3 questions.
C9_ParsedAsStated ==
    (gen.calls >= 1 /\ gen.llm.ok /\ Len(StatedParse(gen.llm.text)) >= MinParsed) =>
        Content(gen.first) = StatedParse(gen.llm.text)

\* the external call failed, or fewer than 3 questions were parsed
FallbackCase(llm) == ~llm.ok \/ Len(ParseQuestions(llm.text, 0)) < MinParsed

FallbackLength(llm) == IF llm.ok THEN 5 ELSE 3

\* the fixed set the code substitutes for that kind of failure, without the ids
FallbackContent(llm, job_role) ==
    Content(IF llm.ok THEN ParseFallback(job_role, 0) ELSE ExceptFallback(job_role, 0))

====
